---------------------------- MODULE Spec2Model ----------------------------
(***************************************************************************)
(* Model of pkg/image/image.go (stereoscope): the Image object, its Read   *)
(* pass (metadata, overrides, layer parse, squash pass) and the content    *)
(* distribution pipeline IterateContent with its observer goroutines.      *)
(*                                                                         *)
(* The packages filetree, file and the FileCatalog / Layer types are not   *)
(* part of the sources at hand; their operations (UnionFileTree.Squash,    *)
(* TarIterator, getByLayerTarIndex, prepareContentReader, Layer.Read,      *)
(* Layer.content) are modelled from the written specification.             *)
(***************************************************************************)
EXTENDS Integers, Sequences, FiniteSets, TLC

(***************************************************************************)
(* Bounds of the model.                                                    *)
(***************************************************************************)
\* layers of an image whose Read is followed from NewImage on
MaxReadLayers == 2
\* layers of an image handed to the squash pass alone
MaxLayers == 3
\* layers of an image handed to IterateContent
MaxIterLayers == 2
\* observers handed to IterateContent
MaxObs == 2
\* metadata overrides given to NewImage
MaxOverrides == 2
\* layers of an image the queries are made on
MaxQueryLayers == 2
\* observers handed to an IterateContent that follows the queries
MaxQueryObs == 1

(***************************************************************************)
(* File trees.  A path is a sequence of names; a tree maps every path of   *)
(* the universe to a node or to NoNode.  A node carries its kind and the   *)
(* index of the layer that introduced it (the identity of its reference).  *)
(***************************************************************************)
Paths == {<<"d">>, <<"d", "x">>, <<"e">>}

\* archive order of the paths of one layer
PathOrder == << <<"d">>, <<"d", "x">>, <<"e">> >>

IsBeneath(p, d) ==
    /\ Len(p) > Len(d)
    /\ SubSeq(p, 1, Len(d)) = d

NoNode == [kind |-> "none", layer |-> 0]

EmptyTree == [p \in Paths |-> NoNode]

\* the shapes a parsed layer tree can have: the parent of an entry is a
\* directory of the same layer (plain or opaque)
LayerTreeShapes ==
    {s \in [Paths -> {"none", "file", "dir", "whiteout", "opaque"}] :
        /\ s[<<"d">>] \in {"none", "dir", "whiteout", "opaque"}
        /\ s[<<"d", "x">>] \in {"none", "file", "whiteout"}
        /\ s[<<"e">>] \in {"none", "file"}
        /\ s[<<"d", "x">>] # "none" => s[<<"d">>] \in {"dir", "opaque"}}

LayerTree(idx, s) ==
    [p \in Paths |-> IF s[p] = "none" THEN NoNode
                     ELSE [kind |-> s[p], layer |-> idx]]

(***************************************************************************)
(* filetree.UnionFileTree.Squash, from the specification (section 4.2):    *)
(* start from an empty result, apply each pushed tree in order; an opaque  *)
(* directory first removes every path of the result beneath it, a whiteout *)
(* removes the path and only the path, any other node overwrites the path. *)
(***************************************************************************)
ApplyTree(result, upper) ==
    LET opq == {d \in Paths : upper[d].kind = "opaque"}
        cleared == [p \in Paths |->
                       IF \E d \in opq : IsBeneath(p, d) THEN NoNode
                       ELSE result[p]]
    IN  [p \in Paths |->
            CASE upper[p].kind = "none" -> cleared[p]
              [] upper[p].kind = "whiteout" -> NoNode
              [] upper[p].kind = "opaque" -> cleared[p]
              [] OTHER -> upper[p]]

RECURSIVE SquashFrom(_, _)
SquashFrom(result, trees) ==
    IF trees = << >> THEN result
    ELSE SquashFrom(ApplyTree(result, Head(trees)), Tail(trees))

UnionSquash(trees) == SquashFrom(EmptyTree, trees)


(***************************************************************************)
(* State.                                                                  *)
(*   image, overrideMetadata : what NewImage was given                     *)
(*   rpc .. trace            : the Image fields and the locals of Read     *)
(*   observers .. iterResult : one call of IterateContent and its          *)
(*                             observer goroutines                         *)
(*   query                   : the last query made on the read image       *)
(***************************************************************************)
VARIABLES
    image,            \* the v1.Image: [nLayers]
    overrideMetadata, \* sequence of AdditionalMetadata, each "ok" or "fail"
    rpc,              \* position of Read
    ovIdx,            \* applyOverrideMetadata: overrides applied so far
    Metadata,         \* i.Metadata
    layers,           \* Read's local slice of parsed layers (the same Layer
                      \* objects as i.Layers once that is assigned)
    iLayers,          \* i.Layers
    catalog,          \* i.FileCatalog, secondary index by layer and tar index
    contentCache,     \* i.FileCatalog, references whose content is cached
    readProg,         \* the progress.Manual of trackReadProgress
    lastSquashTree,   \* squash's local
    sqIdx,            \* squash's loop index
    pushed,           \* per layer index, the trees pushed on the union tree
    readErr,          \* why Read returned an error ("" when it has not)
    trace,            \* the steps Read has taken, in order
    observers,        \* the observers given to IterateContent
    ipc,              \* position of IterateContent (the producer)
    lIdx,             \* index of the layer being visited
    eIdx,             \* tar index of the entry being visited
    oIdx,             \* index of the observer being served
    header,           \* name of the live tar header being visited
    pending,          \* per observer, the observation being sent on its channel
    received,         \* per observer, the observations received so far
    closeCount,       \* per observer, how often its channel was closed
    obsState,         \* per observer, "none", "running" or "exited"
    asked,            \* per observer, the IsInterestedIn calls and answers
    prepared,         \* the prepareContentReader calls, in order
    rawReads,         \* the entries whose tar reader was consumed, in order
    opened,           \* the layers whose content() was called, in order
    lookups,          \* the getByLayerTarIndex calls, in order
    sendLog,          \* the channel sends and receives, in order
    iterResult,       \* "none", "ok" or "error"
    query             \* the caller's last query and what it returned

readVars == <<image, overrideMetadata, rpc, ovIdx, Metadata, layers, iLayers,
              catalog, readProg, lastSquashTree, sqIdx, pushed, readErr, trace>>

iterVars == <<observers, ipc, lIdx, eIdx, oIdx, header, pending, received,
              closeCount, obsState, asked, prepared, rawReads, opened,
              lookups, sendLog, iterResult>>

vars == <<readVars, contentCache, iterVars, query>>

(***************************************************************************)
(* Layers and catalog entries.                                             *)
(***************************************************************************)
\* a parsed layer: NewLayer + Layer.Read leave SquashedTree nil
NewLayer(tree) == [Tree |-> tree, SquashedTree |-> EmptyTree, hasSquash |-> FALSE]

\* the catalog entries Layer.Read registers for one archive, in tar order
EntriesOf(idx, tree) ==
    LET present == SelectSeq(PathOrder, LAMBDA p : tree[p].kind # "none")
    IN  [k \in 1..Len(present) |->
            [File |-> [layer |-> idx, path |-> present[k]],
             TarHeaderName |-> present[k],
             kind |-> tree[present[k]].kind]]

Event(op, arg) == [op |-> op, arg |-> arg]

NoProgress == [N |-> 0, Total |-> 0, completed |-> FALSE]

\* no query made yet
NoQuery == [op |-> "none"]

\* the pipeline before IterateContent is called, and no query made
IterIdle ==
    /\ query = NoQuery
    /\ ipc = "idle"
    /\ lIdx = 0
    /\ eIdx = 0
    /\ oIdx = 0
    /\ header = << >>
    /\ pending = << >>
    /\ received = << >>
    /\ closeCount = << >>
    /\ obsState = << >>
    /\ asked = << >>
    /\ prepared = << >>
    /\ rawReads = << >>
    /\ opened = << >>
    /\ lookups = << >>
    /\ sendLog = << >>
    /\ iterResult = "none"

(***************************************************************************)
(* NewImage: an unread image object.                                       *)
(***************************************************************************)
NewImage(n, overrides) ==
    /\ image = [nLayers |-> n]
    /\ overrideMetadata = overrides
    /\ rpc = "new"
    /\ ovIdx = 0
    /\ Metadata = [parsed |-> FALSE, applied |-> << >>, Size |-> 0]
    /\ layers = << >>
    /\ iLayers = << >>
    /\ catalog = << >>
    /\ contentCache = {}
    /\ readProg = NoProgress
    /\ lastSquashTree = EmptyTree
    /\ sqIdx = 0
    /\ pushed = << >>
    /\ readErr = ""
    /\ trace = << >>

SeqsUpTo(S, n) == UNION {[1..k -> S] : k \in 0..n}

InitRead ==
    /\ \E n \in 0..MaxReadLayers, ov \in SeqsUpTo({"ok", "fail"}, MaxOverrides) :
           NewImage(n, ov)
    /\ observers = << >>
    /\ IterIdle

(***************************************************************************)
(* Image.Read                                                              *)
(***************************************************************************)
\* a wrong error path: the error is noted and Read goes on
ReadFails_GoesOn(why) ==
    /\ rpc' = rpc
    /\ readErr' = why

\* return err
ReadFails(why) ==
    /\ rpc' = "failed"
    /\ readErr' = why

\* i.Metadata, err = readImageMetadata(i.image)
ReadMetadata ==
    /\ rpc = "new"
    /\ \/ /\ rpc' = "overrides"
          /\ Metadata' = [Metadata EXCEPT !.parsed = TRUE]
          /\ trace' = Append(trace, Event("metadata", 0))
          /\ UNCHANGED readErr
       \/ /\ ReadFails("metadata")
          /\ UNCHANGED <<Metadata, trace>>
    /\ UNCHANGED <<image, overrideMetadata, ovIdx, layers, iLayers, catalog,
                   contentCache, readProg, lastSquashTree, sqIdx, pushed>>
    /\ UNCHANGED <<iterVars, query>>

\* one iteration of applyOverrideMetadata's loop
ApplyOverride ==
    /\ rpc = "overrides"
    /\ ovIdx < Len(overrideMetadata)
    /\ \/ /\ overrideMetadata[ovIdx + 1] = "ok"
          /\ ovIdx' = ovIdx + 1
          /\ Metadata' = [Metadata EXCEPT !.applied = Append(@, ovIdx)]
          /\ trace' = Append(trace, Event("override", ovIdx))
          /\ UNCHANGED <<rpc, readErr>>
       \/ /\ overrideMetadata[ovIdx + 1] = "fail"
          /\ ReadFails("override")
          /\ UNCHANGED <<ovIdx, Metadata, trace>>
    /\ UNCHANGED <<image, overrideMetadata, layers, iLayers, catalog,
                   contentCache, readProg, lastSquashTree, sqIdx, pushed>>
    /\ UNCHANGED <<iterVars, query>>

\* the progress object of trackReadProgress: x2 for read and squash
trackReadProgress(n) == [N |-> 0, Total |-> n * 2, completed |-> FALSE]

\* v1Layers, err := i.image.Layers(); readProg := i.trackReadProgress(...)
GetLayers ==
    /\ rpc = "overrides"
    /\ ovIdx = Len(overrideMetadata)
    /\ \/ /\ rpc' = "layers"
          /\ readProg' = trackReadProgress(image.nLayers)
          /\ UNCHANGED readErr
       \/ /\ ReadFails("layers")
          /\ UNCHANGED readProg
    /\ UNCHANGED <<image, overrideMetadata, ovIdx, Metadata, layers, iLayers,
                   catalog, contentCache, lastSquashTree, sqIdx, pushed, trace>>
    /\ UNCHANGED <<iterVars, query>>

\* one iteration of the loop over v1Layers: layer.Read, size, append, N++
ParseLayer ==
    /\ rpc = "layers"
    /\ Len(layers) < image.nLayers
    /\ LET idx == Len(layers)
       IN  \/ \E s \in LayerTreeShapes :
                LET tree == LayerTree(idx, s)
                    ents == EntriesOf(idx, tree)
                IN  /\ catalog' = Append(catalog, ents)
                    /\ Metadata' = [Metadata EXCEPT !.Size = @ + Len(ents)]
                    /\ layers' = Append(layers, NewLayer(tree))
                    /\ readProg' = [readProg EXCEPT !.N = @ + 1]
                    /\ trace' = Append(trace, Event("parse", idx))
                    /\ UNCHANGED <<rpc, readErr>>
           \/ /\ ReadFails("parse")
              /\ UNCHANGED <<catalog, Metadata, layers, readProg, trace>>
    /\ UNCHANGED <<image, overrideMetadata, ovIdx, iLayers, contentCache,
                   lastSquashTree, sqIdx, pushed>>
    /\ UNCHANGED <<iterVars, query>>

\* a wrong loop exit: the loop over v1Layers left after any iteration
AllLayersParsed_Early == TRUE

\* the loop over v1Layers has run for every layer
AllLayersParsed == Len(layers) = image.nLayers

\* i.Layers = layers, and the call of i.squash(readProg)
PublishLayers ==
    /\ rpc = "layers"
    /\ AllLayersParsed
    /\ iLayers' = layers
    /\ rpc' = "squash"
    /\ sqIdx' = 0
    /\ trace' = Append(trace, Event("publish", Len(layers)))
    /\ UNCHANGED <<image, overrideMetadata, ovIdx, Metadata, layers, catalog,
                   contentCache, readProg, lastSquashTree, pushed, readErr>>
    /\ UNCHANGED <<iterVars, query>>

(***************************************************************************)
(* Image.squash                                                            *)
(***************************************************************************)
\* a wrong union: the previous layer's own tree instead of its squash
PushedTrees_OwnTree(idx) == <<iLayers[idx].Tree, iLayers[idx + 1].Tree>>

\* a wrong union: the two trees pushed in the opposite order
PushedTrees_Swapped(idx) == <<iLayers[idx + 1].Tree, lastSquashTree>>

\* a wrong union: the previous squash never pushed
PushedTrees_OnlyOwn(idx) == <<iLayers[idx + 1].Tree>>

\* unionTree.PushTree(lastSquashTree); unionTree.PushTree(layer.Tree)
PushedTrees(idx) == <<lastSquashTree, iLayers[idx + 1].Tree>>

\* lastSquashTree left unset for the first layer
FirstLastSquashTree_Unset(tree) == EmptyTree

\* idx == 0: lastSquashTree = layer.Tree
FirstLastSquashTree(tree) == tree

SetSquashed(idx, tree) ==
    [iLayers EXCEPT ![idx + 1] = [@ EXCEPT !.SquashedTree = tree,
                                          !.hasSquash = TRUE]]

\* one iteration of the loop over i.Layers
SquashStep ==
    /\ rpc = "squash"
    /\ sqIdx < Len(iLayers)
    /\ \/ /\ sqIdx = 0
          /\ lastSquashTree' = FirstLastSquashTree(iLayers[1].Tree)
          /\ iLayers' = SetSquashed(0, iLayers[1].Tree)
          /\ pushed' = Append(pushed, << >>)
          /\ UNCHANGED readProg
       \/ /\ sqIdx # 0
          /\ LET squashedTree == UnionSquash(PushedTrees(sqIdx))
             IN  /\ iLayers' = SetSquashed(sqIdx, squashedTree)
                 /\ lastSquashTree' = squashedTree
          /\ pushed' = Append(pushed, PushedTrees(sqIdx))
          /\ readProg' = [readProg EXCEPT !.N = @ + 1]
    /\ layers' = iLayers'
    /\ sqIdx' = sqIdx + 1
    /\ trace' = Append(trace, Event("squash", sqIdx))
    /\ UNCHANGED <<image, overrideMetadata, rpc, ovIdx, Metadata, catalog,
                   contentCache, readErr>>
    /\ UNCHANGED <<iterVars, query>>

\* unionTree.Squash() returns an error: "failed to squash tree idx"
SquashFail ==
    /\ rpc = "squash"
    /\ sqIdx < Len(iLayers)
    /\ sqIdx # 0
    /\ ReadFails("squash")
    /\ pushed' = Append(pushed, PushedTrees(sqIdx))
    /\ UNCHANGED <<image, overrideMetadata, ovIdx, Metadata, layers, iLayers,
                   catalog, contentCache, readProg, lastSquashTree, sqIdx,
                   trace>>
    /\ UNCHANGED <<iterVars, query>>

\* prog.SetCompleted(); return nil
SquashDone ==
    /\ rpc = "squash"
    /\ sqIdx = Len(iLayers)
    /\ readProg' = [readProg EXCEPT !.completed = TRUE]
    /\ rpc' = "done"
    /\ UNCHANGED <<image, overrideMetadata, ovIdx, Metadata, layers, iLayers,
                   catalog, contentCache, lastSquashTree, sqIdx, pushed,
                   readErr, trace>>
    /\ UNCHANGED <<iterVars, query>>

NextSquash ==
    \/ SquashStep
    \/ SquashFail
    \/ SquashDone

NextRead ==
    \/ ReadMetadata
    \/ ApplyOverride
    \/ GetLayers
    \/ ParseLayer
    \/ PublishLayers
    \/ NextSquash

\* Read followed from NewImage on
SpecRead == InitRead /\ [][NextRead]_vars

(***************************************************************************)
(* The squash pass alone: Image.squash as a function of the layer trees.   *)
(* Its initial states are the states in which Read, given no overrides,    *)
(* calls i.squash.                                                         *)
(***************************************************************************)
ParsedLayers(shapes) ==
    [k \in 1..Len(shapes) |-> NewLayer(LayerTree(k - 1, shapes[k]))]

ParsedCatalog(shapes) ==
    [k \in 1..Len(shapes) |-> EntriesOf(k - 1, LayerTree(k - 1, shapes[k]))]

RECURSIVE SumLen(_)
SumLen(ss) == IF ss = << >> THEN 0 ELSE Len(Head(ss)) + SumLen(Tail(ss))

AtSquashEntry(shapes) ==
    LET n == Len(shapes)
    IN  /\ image = [nLayers |-> n]
        /\ overrideMetadata = << >>
        /\ rpc = "squash"
        /\ ovIdx = 0
        /\ Metadata = [parsed |-> TRUE, applied |-> << >>,
                       Size |-> SumLen(ParsedCatalog(shapes))]
        /\ layers = ParsedLayers(shapes)
        /\ iLayers = ParsedLayers(shapes)
        /\ catalog = ParsedCatalog(shapes)
        /\ contentCache = {}
        /\ readProg = [N |-> n, Total |-> n * 2, completed |-> FALSE]
        /\ lastSquashTree = EmptyTree
        /\ sqIdx = 0
        /\ pushed = << >>
        /\ readErr = ""
        /\ trace = <<Event("metadata", 0)>>
                   \o [k \in 1..n |-> Event("parse", k - 1)]
                   \o <<Event("publish", n)>>

InitSquash ==
    /\ \E shapes \in SeqsUpTo(LayerTreeShapes, MaxLayers) : AtSquashEntry(shapes)
    /\ observers = << >>
    /\ IterIdle

SpecSquash == InitSquash /\ [][NextSquash]_vars

\* the shapes of the layer trees of the image
ShapeOf(tree) == [p \in Paths |-> tree[p].kind]

\* Read, given no overrides, enters the squash pass in a state of InitSquash
SquashEntryIsInitSquash ==
    (rpc = "squash" /\ sqIdx = 0 /\ overrideMetadata = << >>)
        => AtSquashEntry([k \in 1..Len(layers) |-> ShapeOf(layers[k].Tree)])

(***************************************************************************)
(* The image a completed Read leaves behind, as a function of the shapes   *)
(* of its layer trees (no overrides).                                      *)
(***************************************************************************)
RECURSIVE SquashedLayers(_)
SquashedLayers(shapes) ==
    IF shapes = << >> THEN << >>
    ELSE LET n == Len(shapes)
             below == SquashedLayers(SubSeq(shapes, 1, n - 1))
             tree == LayerTree(n - 1, shapes[n])
             sq == IF n = 1 THEN tree
                   ELSE UnionSquash(<<below[n - 1].SquashedTree, tree>>)
         IN  Append(below, [Tree |-> tree, SquashedTree |-> sq,
                            hasSquash |-> TRUE])

AtReadDone(shapes) ==
    LET n == Len(shapes)
        done == SquashedLayers(shapes)
    IN  /\ image = [nLayers |-> n]
        /\ overrideMetadata = << >>
        /\ rpc = "done"
        /\ ovIdx = 0
        /\ Metadata = [parsed |-> TRUE, applied |-> << >>,
                       Size |-> SumLen(ParsedCatalog(shapes))]
        /\ layers = done
        /\ iLayers = done
        /\ catalog = ParsedCatalog(shapes)
        /\ readProg = [N |-> IF n = 0 THEN 0 ELSE n + n - 1, Total |-> n * 2,
                       completed |-> TRUE]
        /\ lastSquashTree = IF n = 0 THEN EmptyTree ELSE done[n].SquashedTree
        /\ sqIdx = n
        /\ pushed = [k \in 1..n |->
                        IF k = 1 THEN << >>
                        ELSE <<done[k - 1].SquashedTree, done[k].Tree>>]
        /\ readErr = ""
        /\ trace = <<Event("metadata", 0)>>
                   \o [k \in 1..n |-> Event("parse", k - 1)]
                   \o <<Event("publish", n)>>
                   \o [k \in 1..n |-> Event("squash", k - 1)]

\* Read, given no overrides, completes in a state of AtReadDone
ReadDoneIsAtReadDone ==
    (rpc = "done" /\ overrideMetadata = << >>)
        => AtReadDone([k \in 1..Len(layers) |-> ShapeOf(layers[k].Tree)])

(***************************************************************************)
(* Image.IterateContent: the producer and the observer goroutines.         *)
(***************************************************************************)
\* the observers of the model, by what they are interested in
InterestKinds == {"all", "none", "files"}

\* ContentObserver.IsInterestedIn
IsInterestedIn(observer, entry) ==
    CASE observer = "all" -> TRUE
      [] observer = "none" -> FALSE
      [] observer = "files" -> entry.kind = "file"

\* the layer archives of the images handed to IterateContent
IterShapes ==
    {s \in LayerTreeShapes :
        \/ /\ s[<<"d">>] = "dir"
           /\ s[<<"d", "x">>] = "file"
           /\ s[<<"e">>] = "none"
        \/ /\ s[<<"d">>] = "none"
           /\ s[<<"e">>] = "file"}

InitIter ==
    /\ \E shapes \in SeqsUpTo(IterShapes, MaxIterLayers) : AtReadDone(shapes)
    /\ contentCache = {}
    /\ observers \in SeqsUpTo(InterestKinds, MaxObs)
    /\ IterIdle

\* ContentObservation, by the archive position of its entry
Observation(l, e) == [layer |-> l, index |-> e]

\* the name a live tar header has when the archive changed since the parse
ChangedName == <<"changed">>

\* the send handed to a goroutine of its own: the producer never blocks
SendUnblocked_Async(o) == TRUE

\* every send goes to the first subscription
SubscriptionOf_First(idx) == 0

\* subscriptions[idx], the channel of observers[idx]
SubscriptionOf(idx) == idx

\* subscriptions[idx] <- observation returns once the observer has received:
\* the channel is unbuffered
SendUnblocked(o) == pending[SubscriptionOf(o) + 1] = {}

\* the length check taken out
NoObservers_Never == FALSE

\* len(observers) == 0
NoObservers == Len(observers) = 0

\* the deferred close left out
Return_NoClose(result) ==
    /\ ipc' = "returned"
    /\ iterResult' = result
    /\ UNCHANGED closeCount

\* an error path that closes the subscriptions itself, before the deferred
\* close does so again
Return_ErrorClosesTwice(result) ==
    /\ ipc' = "returned"
    /\ iterResult' = result
    /\ closeCount' = [o \in 1..Len(closeCount) |->
                         closeCount[o] + IF result = "error" THEN 2 ELSE 1]

\* the deferred close of every subscription, and the return
Return(result) ==
    /\ ipc' = "returned"
    /\ iterResult' = result
    /\ closeCount' = [o \in 1..Len(closeCount) |-> closeCount[o] + 1]

\* the length check, make(chan), go observer.ObserveContent, the defer
IterStart ==
    /\ ipc = "idle"
    /\ rpc = "done"
    /\ \/ /\ NoObservers
          /\ ipc' = "returned"
          /\ iterResult' = "error"
          /\ UNCHANGED <<pending, received, closeCount, obsState, asked>>
       \/ /\ ~NoObservers
          /\ ipc' = "layer"
          /\ pending' = [o \in 1..Len(observers) |-> {}]
          /\ received' = [o \in 1..Len(observers) |-> << >>]
          /\ closeCount' = [o \in 1..Len(observers) |-> 0]
          /\ obsState' = [o \in 1..Len(observers) |-> "running"]
          /\ asked' = [o \in 1..Len(observers) |-> << >>]
          /\ UNCHANGED iterResult
    /\ UNCHANGED <<observers, lIdx, eIdx, oIdx, header, prepared, rawReads,
                   opened, lookups, sendLog>>
    /\ query' = NoQuery
    /\ UNCHANGED <<readVars, contentCache>>

\* layerTarReader, err := l.content()
OpenLayer ==
    /\ ipc = "layer"
    /\ lIdx < Len(iLayers)
    /\ opened' = Append(opened, lIdx)
    /\ \/ /\ ipc' = "tar"
          /\ eIdx' = 0
          /\ UNCHANGED <<iterResult, closeCount>>
       \/ /\ Return("error")
          /\ UNCHANGED eIdx
    /\ UNCHANGED <<observers, lIdx, oIdx, header, pending, received, obsState,
                   asked, prepared, rawReads, lookups, sendLog>>
    /\ UNCHANGED <<readVars, contentCache, query>>

\* the loop over i.Layers is over: return nil
IterDone ==
    /\ ipc = "layer"
    /\ lIdx = Len(iLayers)
    /\ Return("ok")
    /\ UNCHANGED <<observers, lIdx, eIdx, oIdx, header, pending, received,
                   obsState, asked, prepared, rawReads, opened, lookups,
                   sendLog>>
    /\ UNCHANGED <<readVars, contentCache, query>>

\* the names the live archive of layer l can show at tar index e
LiveNames(l, e) ==
    IF e < Len(catalog[l + 1])
    THEN {catalog[l + 1][e + 1].TarHeaderName, ChangedName}
    ELSE {ChangedName}

\* file.TarIterator: the next header of the archive, its end, or a read error
TarNext ==
    /\ ipc = "tar"
    /\ \/ /\ \E name \in LiveNames(lIdx, eIdx) : header' = name
          /\ ipc' = "visit"
          /\ UNCHANGED <<lIdx, iterResult, closeCount>>
       \/ /\ ipc' = "layer"
          /\ lIdx' = lIdx + 1
          /\ UNCHANGED <<header, iterResult, closeCount>>
       \/ /\ Return("error")
          /\ UNCHANGED <<lIdx, header>>
    /\ UNCHANGED <<observers, eIdx, oIdx, pending, received, obsState, asked,
                   prepared, rawReads, opened, lookups, sendLog>>
    /\ UNCHANGED <<readVars, contentCache, query>>

\* FileCatalog.getByLayerTarIndex: the entry registered at that position
HasEntry(l, e) == e < Len(catalog[l + 1])

getByLayerTarIndex(l, e) == catalog[l + 1][e + 1]

\* the gut check of the secondary index left out
NamesMatch_Unchecked(entry, name) == TRUE

\* entry.Metadata.TarHeaderName != header.Name
NamesMatch(entry, name) == entry.TarHeaderName = name

\* tarVisitor, up to the loop over the observers
Visit ==
    /\ ipc = "visit"
    /\ lookups' = Append(lookups, [layer |-> lIdx, index |-> eIdx,
                                   found |-> HasEntry(lIdx, eIdx),
                                   name |-> header])
    /\ \/ /\ HasEntry(lIdx, eIdx)
          /\ NamesMatch(getByLayerTarIndex(lIdx, eIdx), header)
          /\ ipc' = "ask"
          /\ oIdx' = 0
          /\ UNCHANGED <<iterResult, closeCount>>
       \/ /\ ~HasEntry(lIdx, eIdx)
          /\ Return("error")
          /\ UNCHANGED oIdx
       \/ /\ HasEntry(lIdx, eIdx)
          /\ ~NamesMatch(getByLayerTarIndex(lIdx, eIdx), header)
          /\ Return("error")
          /\ UNCHANGED oIdx
    /\ UNCHANGED <<observers, lIdx, eIdx, header, pending, received, obsState,
                   asked, prepared, rawReads, opened, sendLog>>
    /\ UNCHANGED <<readVars, contentCache, query>>

\* a reader prepared for every observer, interested or not
PreparesReader_Always(observer, entry) == TRUE

\* prepareContentReader is called inside "if observer.IsInterestedIn(...)"
PreparesReader(observer, entry) == IsInterestedIn(observer, entry)

\* FileCatalog.prepareContentReader consumes the tar reader of a reference
\* whose content is not cached yet
ConsumesTarReader(ref) == ref \notin contentCache

SendEvent(ev, o, ob) ==
    [ev |-> ev, obs |-> o, layer |-> ob.layer, index |-> ob.index]

\* one iteration of the loop over the observers, up to the channel send
AskObserver ==
    /\ ipc = "ask"
    /\ oIdx < Len(observers)
    /\ LET entry == getByLayerTarIndex(lIdx, eIdx)
           observer == observers[oIdx + 1]
           interested == IsInterestedIn(observer, entry)
           call == [layer |-> lIdx, index |-> eIdx, obs |-> oIdx]
       IN  /\ asked' = [asked EXCEPT ![oIdx + 1] =
                           Append(@, [layer |-> lIdx, index |-> eIdx,
                                      interested |-> interested])]
           /\ IF PreparesReader(observer, entry)
              THEN /\ prepared' = Append(prepared, call)
                   /\ \/ /\ IF ConsumesTarReader(entry.File)
                            THEN /\ rawReads' = Append(rawReads, entry.File)
                                 /\ contentCache' = contentCache \cup {entry.File}
                            ELSE UNCHANGED <<rawReads, contentCache>>
                         /\ IF interested
                            THEN /\ pending' = [pending EXCEPT ![SubscriptionOf(oIdx) + 1] =
                                                   @ \cup {Observation(lIdx, eIdx)}]
                                 /\ sendLog' = Append(sendLog,
                                       SendEvent("send", SubscriptionOf(oIdx),
                                                 Observation(lIdx, eIdx)))
                                 /\ ipc' = "send"
                                 /\ UNCHANGED oIdx
                            ELSE /\ oIdx' = oIdx + 1
                                 /\ UNCHANGED <<pending, sendLog, ipc>>
                         /\ UNCHANGED <<iterResult, closeCount>>
                      \/ /\ Return("error")
                         /\ UNCHANGED <<rawReads, contentCache, pending,
                                        sendLog, oIdx>>
              ELSE /\ oIdx' = oIdx + 1
                   /\ UNCHANGED <<prepared, rawReads, contentCache, pending,
                                  sendLog, ipc, iterResult, closeCount>>
    /\ UNCHANGED <<observers, lIdx, eIdx, header, received, obsState, opened,
                   lookups>>
    /\ UNCHANGED <<readVars, query>>

\* the channel send returns: on to the next observer
SendReturn ==
    /\ ipc = "send"
    /\ SendUnblocked(oIdx)
    /\ ipc' = "ask"
    /\ oIdx' = oIdx + 1
    /\ UNCHANGED <<observers, lIdx, eIdx, header, pending, received,
                   closeCount, obsState, asked, prepared, rawReads, opened,
                   lookups, sendLog, iterResult>>
    /\ UNCHANGED <<readVars, contentCache, query>>

\* tarVisitor returns nil: TarIterator goes on to the next entry
EntryDone ==
    /\ ipc = "ask"
    /\ oIdx = Len(observers)
    /\ ipc' = "tar"
    /\ eIdx' = eIdx + 1
    /\ UNCHANGED <<observers, lIdx, oIdx, header, pending, received,
                   closeCount, obsState, asked, prepared, rawReads, opened,
                   lookups, sendLog, iterResult>>
    /\ UNCHANGED <<readVars, contentCache, query>>

\* observer o (1-based) receives the observation offered on its channel
ObsReceive(o) ==
    /\ obsState[o] = "running"
    /\ \E ob \in pending[o] :
          /\ received' = [received EXCEPT ![o] =
                             Append(@, [layer |-> ob.layer, index |-> ob.index,
                                        closed |-> closeCount[o] > 0])]
          /\ sendLog' = Append(sendLog, SendEvent("recv", o - 1, ob))
          /\ pending' = [pending EXCEPT ![o] = @ \ {ob}]
    /\ UNCHANGED <<observers, ipc, lIdx, eIdx, oIdx, header, closeCount,
                   obsState, asked, prepared, rawReads, opened, lookups,
                   iterResult>>
    /\ UNCHANGED <<readVars, contentCache, query>>

\* observer o (1-based) finds its channel closed and leaves its loop
ObsExit(o) ==
    /\ obsState[o] = "running"
    /\ pending[o] = {}
    /\ closeCount[o] > 0
    /\ obsState' = [obsState EXCEPT ![o] = "exited"]
    /\ UNCHANGED <<observers, ipc, lIdx, eIdx, oIdx, header, pending,
                   received, closeCount, asked, prepared, rawReads, opened,
                   lookups, sendLog, iterResult>>
    /\ UNCHANGED <<readVars, contentCache, query>>

NextIter ==
    \/ IterStart
    \/ OpenLayer
    \/ IterDone
    \/ TarNext
    \/ Visit
    \/ AskObserver
    \/ SendReturn
    \/ EntryDone
    \/ \E o \in 1..Len(obsState) : ObsReceive(o)
    \/ \E o \in 1..Len(obsState) : ObsExit(o)

\* IterateContent on an image that Read has completed
SpecIter == InitIter /\ [][NextIter]_vars

\* a step of the goroutine that called IterateContent
Producer ==
    \/ IterStart
    \/ OpenLayer
    \/ IterDone
    \/ TarNext
    \/ Visit
    \/ AskObserver
    \/ SendReturn
    \/ EntryDone

\* a step of the goroutine started for observers[o - 1]
ObserverStep(o) ==
    /\ o \in DOMAIN obsState
    /\ (ObsReceive(o) \/ ObsExit(o))

\* the Go scheduler runs every goroutine that can take a step, and an
\* observer that ranges over its channel receives until the channel is
\* closed: the caller's goroutine and each observer's are weakly fair
SpecIterFair ==
    /\ SpecIter
    /\ WF_vars(Producer)
    /\ \A o \in 1..MaxObs : WF_vars(ObserverStep(o))

(***************************************************************************)
(* The queries on a read image.  filetree.FileTree.File and the catalog's  *)
(* FileContents are taken from the specification (sections 4.1, 4.3, 4.4); *)
(* the trees of the model hold no link nodes, so a lookup yields the       *)
(* reference the tree holds at the path.                                   *)
(***************************************************************************)
\* the regular-file paths the path queries ask for
QueryPaths == {<<"d", "x">>, <<"e">>}

\* the references handed to the queries: of the two lowest layers
QueryRefs == {[layer |-> l, path |-> p] : l \in {0, 1}, p \in QueryPaths}

\* the options a caller hands to a link resolution
CallerOptions == {<< >>, <<"DoNotFollowDeadBasenameLinks">>}

\* the references the catalog holds
CatalogRefs ==
    UNION {{catalog[l][k].File : k \in 1..Len(catalog[l])} :
               l \in 1..Len(catalog)}

\* FileTree.File: the reference a tree holds at a path, if any
FileAt(tree, path) ==
    IF tree[path].kind \in {"file", "dir"}
    THEN {[layer |-> tree[path].layer, path |-> path]}
    ELSE {}

\* what a query gave back: the value, an error, or a run-time panic
Returned(refs) == [status |-> "ok", refs |-> refs]
Failed == [status |-> "error", refs |-> {}]
Panicked == [status |-> "panic", refs |-> {}]

\* a wrong SquashedTree: the squash of the first layer
ImageSquashedTree_First ==
    IF Len(iLayers) = 0 THEN EmptyTree ELSE iLayers[1].SquashedTree

\* Image.SquashedTree
ImageSquashedTree ==
    IF Len(iLayers) = 0
    THEN EmptyTree
    ELSE iLayers[Len(iLayers)].SquashedTree

\* the queries of the model are made once Read is done, before the caller
\* goes on to IterateContent
QueryReady ==
    /\ rpc = "done"
    /\ ipc = "idle"

\* fetchMultipleFileContentsByPath: every path must be in the tree
fetchMultipleFileContentsByPath(tree, paths) ==
    IF \E p \in paths : FileAt(tree, p) = {}
    THEN Failed
    ELSE Returned(UNION {FileAt(tree, p) : p \in paths})

\* fetchFileContentsByPath
fetchFileContentsByPath(tree, path) ==
    fetchMultipleFileContentsByPath(tree, {path})

\* FileCatalog.MultipleFileContents: every reference must be in the catalog
MultipleFileContents(refs) ==
    IF refs \subseteq CatalogRefs THEN Returned(refs) ELSE Failed

\* a wrong query: it empties the metadata of the image it is asked about
Answer_ResetsMetadata(op, arg, tree, options, result) ==
    /\ query' = [op |-> op, arg |-> arg, tree |-> tree, options |-> options,
                 result |-> result]
    /\ Metadata' = [Metadata EXCEPT !.Size = 0]
    /\ UNCHANGED <<image, overrideMetadata, rpc, ovIdx, layers, iLayers,
                   catalog, readProg, lastSquashTree, sqIdx, pushed, readErr,
                   trace, contentCache, iterVars>>

\* the image model is read only; the contents handed out are cached
Answer(op, arg, tree, options, result) ==
    /\ query' = [op |-> op, arg |-> arg, tree |-> tree, options |-> options,
                 result |-> result]
    /\ contentCache' = IF op \in {"SquashedTree", "ResolveLinkByLayerSquash",
                                  "ResolveLinkByImageSquash"}
                       THEN contentCache
                       ELSE contentCache \cup result.refs
    /\ UNCHANGED <<readVars, iterVars>>

\* a caller of Image.SquashedTree
GetSquashedTree ==
    /\ QueryReady
    /\ Answer("SquashedTree", << >>, ImageSquashedTree, << >>, Returned({}))

FileContentsFromSquash(path) ==
    /\ QueryReady
    /\ LET tree == ImageSquashedTree
       IN  Answer("FileContentsFromSquash", {path}, tree, << >>,
                  fetchFileContentsByPath(tree, path))

MultipleFileContentsFromSquash(paths) ==
    /\ QueryReady
    /\ LET tree == ImageSquashedTree
       IN  Answer("MultipleFileContentsFromSquash", paths, tree, << >>,
                  fetchMultipleFileContentsByPath(tree, paths))

FileContentsByRef(ref) ==
    /\ QueryReady
    /\ Answer("FileContentsByRef", {ref}, EmptyTree, << >>,
              MultipleFileContents({ref}))

MultipleFileContentsByRef(refs) ==
    /\ QueryReady
    /\ Answer("MultipleFileContentsByRef", refs, EmptyTree, << >>,
              MultipleFileContents(refs))

\* append([]LinkResolutionOption{FollowBasenameLinks}, options...)
AllOptions(options) == <<"FollowBasenameLinks">> \o options

\* i.Layers[layer].SquashedTree.File(ref.RealPath, allOptions...)
ResolveAtLayer(op, ref, layer, options) ==
    IF layer \in 0..(Len(iLayers) - 1)
    THEN LET tree == iLayers[layer + 1].SquashedTree
         IN  Answer(op, <<ref, layer>>, tree, AllOptions(options),
                    Returned(FileAt(tree, ref.path)))
    ELSE Answer(op, <<ref, layer>>, EmptyTree, AllOptions(options), Panicked)

ResolveLinkByLayerSquash(ref, layer, options) ==
    /\ QueryReady
    /\ ResolveAtLayer("ResolveLinkByLayerSquash", ref, layer, options)

\* the index ResolveLinkByImageSquash takes the layer at
TopLayerIndex == Len(iLayers) - 1

ResolveLinkByImageSquash(ref, options) ==
    /\ QueryReady
    /\ ResolveAtLayer("ResolveLinkByImageSquash", ref, TopLayerIndex, options)

NextQuery ==
    \/ GetSquashedTree
    \/ \E path \in QueryPaths : FileContentsFromSquash(path)
    \/ \E paths \in (SUBSET QueryPaths) \ {{}} : MultipleFileContentsFromSquash(paths)
    \/ \E ref \in QueryRefs : FileContentsByRef(ref)
    \/ \E refs \in {r \in SUBSET QueryRefs : Cardinality(r) = 2} :
           MultipleFileContentsByRef(refs)
    \/ \E ref \in QueryRefs, layer \in 0..(MaxQueryLayers - 1),
             options \in CallerOptions :
           ResolveLinkByLayerSquash(ref, layer, options)
    \/ \E ref \in QueryRefs, options \in CallerOptions :
           ResolveLinkByImageSquash(ref, options)
    \/ NextIter

InitQuery ==
    /\ \E shapes \in SeqsUpTo(IterShapes, MaxQueryLayers) : AtReadDone(shapes)
    /\ contentCache = {}
    /\ observers \in SeqsUpTo(InterestKinds, MaxQueryObs)
    /\ IterIdle

\* queries and IterateContent, one call at a time, on an image that Read
\* has completed
SpecQuery == InitQuery /\ [][NextQuery]_vars

(***************************************************************************)
(* Properties of IterateContent, checked under SpecIter.                   *)
(***************************************************************************)
Obs == 1..Len(obsState)

\* the entries an observer was asked about and answered true for, in order
InterestedEntries(o) ==
    LET yes == SelectSeq(asked[o], LAMBDA a : a.interested)
    IN  [k \in 1..Len(yes) |-> Observation(yes[k].layer, yes[k].index)]

AskedEntries(o) ==
    [k \in 1..Len(asked[o]) |-> Observation(asked[o][k].layer, asked[o][k].index)]

ReceivedEntries(o) ==
    [k \in 1..Len(received[o]) |->
        Observation(received[o][k].layer, received[o][k].index)]

\* the entries whose catalog lookup and name check passed, in order
VisitedEntries ==
    LET ok == SelectSeq(lookups, LAMBDA l :
                  l.found /\ catalog[l.layer + 1][l.index + 1].TarHeaderName = l.name)
    IN  [k \in 1..Len(ok) |-> Observation(ok[k].layer, ok[k].index)]

\* C1: when IterateContent returns without error, every observer was asked
\* about every visited archive entry, and has received exactly one
\* observation for each entry it answered true for and none for the others.
C1_ExactlyOncePerInterest ==
    iterResult = "ok" =>
        \A o \in Obs :
            /\ AskedEntries(o) = VisitedEntries
            /\ ReceivedEntries(o) = InterestedEntries(o)

C1_Witness ==
    /\ iterResult = "ok"
    /\ \E o \in Obs : Len(received[o]) >= 2
    /\ \E o \in Obs : \E k \in 1..Len(asked[o]) : ~asked[o][k].interested

Before(a, b) ==
    \/ a.layer < b.layer
    \/ a.layer = b.layer /\ a.index < b.index

\* C2: what one observer receives is ordered by layer index first and by
\* archive position within a layer.
C2_LayerThenArchiveOrder ==
    \A o \in Obs :
        \A i, j \in 1..Len(received[o]) :
            i < j => Before(received[o][i], received[o][j])

C2_Witness ==
    \E o \in Obs :
        /\ Len(received[o]) >= 3
        /\ received[o][1].layer = received[o][2].layer
        /\ received[o][2].layer < received[o][3].layer

\* C3: delivery is synchronous and in registration order.  While a send is
\* outstanding the producer stands at that send, of the current entry to the
\* current observer, and nothing else is outstanding; in the order of channel
\* events every send is directly followed by its receive; and the receives
\* of one entry happen in the order of the observers' registration.
C3_SynchronousRegistrationOrder ==
    /\ \A o \in Obs :
          pending[o] # {} =>
              /\ ipc = "send"
              /\ o = oIdx + 1
              /\ pending[o] = {Observation(lIdx, eIdx)}
              /\ \A b \in Obs \ {o} : pending[b] = {}
    /\ \A k \in 1..Len(sendLog) :
          sendLog[k].ev = "send" =>
              \/ k = Len(sendLog) /\ ipc = "send"
              \/ /\ k < Len(sendLog)
                 /\ sendLog[k + 1] = [sendLog[k] EXCEPT !.ev = "recv"]
    /\ \A i, j \in 1..Len(sendLog) :
          (/\ i < j
           /\ sendLog[i].ev = "recv"
           /\ sendLog[j].ev = "recv"
           /\ sendLog[i].layer = sendLog[j].layer
           /\ sendLog[i].index = sendLog[j].index)
              => sendLog[i].obs < sendLog[j].obs

\* two observers have received the same entry, and a third send is outstanding
C3_Witness ==
    /\ \E i, j \in 1..Len(sendLog) :
          /\ i < j
          /\ sendLog[i].ev = "recv"
          /\ sendLog[j].ev = "recv"
          /\ sendLog[i].layer = sendLog[j].layer
          /\ sendLog[i].index = sendLog[j].index
    /\ \E o \in Obs : pending[o] # {}

\* C4: when every layer has been visited every observer's channel is closed;
\* a channel is closed only when nothing sent on it is still to be received,
\* and nothing is received from a closed channel.
C4_ClosedAfterLastDelivery ==
    /\ iterResult = "ok" => \A o \in Obs : closeCount[o] >= 1
    /\ \A o \in Obs :
          closeCount[o] >= 1 =>
              /\ pending[o] = {}
              /\ \A k \in 1..Len(sendLog) :
                    (sendLog[k].ev = "send" /\ sendLog[k].obs = o - 1) =>
                        \E r \in 1..Len(received[o]) :
                            ReceivedEntries(o)[r] =
                                Observation(sendLog[k].layer, sendLog[k].index)
    /\ \A o \in Obs : \A k \in 1..Len(received[o]) : ~received[o][k].closed

C4_Witness ==
    /\ iterResult = "ok"
    /\ \E o \in Obs : closeCount[o] >= 1 /\ Len(received[o]) >= 2
    /\ \E o \in Obs : obsState[o] = "exited"

\* C5: with zero observers IterateContent returns an error at once: no layer
\* archive is opened or read, no catalog lookup is made, no channel and no
\* consumer is created.
C5_NoObserversFailsAtOnce ==
    Len(observers) = 0 =>
        /\ ipc \in {"idle", "returned"}
        /\ ipc = "returned" => iterResult = "error"
        /\ opened = << >>
        /\ lookups = << >>
        /\ prepared = << >>
        /\ pending = << >>
        /\ closeCount = << >>
        /\ obsState = << >>

C5_Witness ==
    /\ Len(observers) = 0
    /\ ipc = "returned"
    /\ Len(iLayers) >= 1

\* a lookup that found no catalog entry, or one recorded under another name
LookupFailed(l) ==
    \/ ~l.found
    \/ catalog[l.layer + 1][l.index + 1].TarHeaderName # l.name

\* C6: when the catalog entry at (layer, tar index) is missing or carries
\* another name than the live header, IterateContent returns an error: no
\* observer is asked about or receives that entry, nothing is visited after
\* it, and no later layer archive is opened.
C6_MismatchAborts ==
    \A k \in 1..Len(lookups) :
        LookupFailed(lookups[k]) =>
            /\ ipc = "returned"
            /\ iterResult = "error"
            /\ k = Len(lookups)
            /\ \A o \in Obs :
                  /\ \A a \in 1..Len(asked[o]) :
                        AskedEntries(o)[a] #
                            Observation(lookups[k].layer, lookups[k].index)
                  /\ \A r \in 1..Len(received[o]) :
                        Before(received[o][r], lookups[k])
                  /\ pending[o] = {}
            /\ \A j \in 1..Len(opened) : opened[j] <= lookups[k].layer

\* a changed name met in the first of two layers, after a delivered entry
C6_Witness ==
    /\ Len(iLayers) >= 2
    /\ \E k \in 1..Len(lookups) :
          /\ lookups[k].found
          /\ LookupFailed(lookups[k])
          /\ lookups[k].layer = 0
    /\ \E o \in Obs : Len(received[o]) >= 1

PreparedFor(l, e) ==
    {k \in 1..Len(prepared) : prepared[k].layer = l /\ prepared[k].index = e}

\* C7 as claimed: prepareContentReader is called once per archive entry,
\* however many observers are interested in it.
C7_OncePerEntry ==
    \A k \in 1..Len(prepared) :
        Cardinality(PreparedFor(prepared[k].layer, prepared[k].index)) = 1

\* C7 as amended: prepareContentReader is called once for every observer
\* interested in an entry (as often as the entry has interested observers)
\* and for no other observer, while the entry's tar reader is consumed at
\* most once per entry whatever the number of interested observers (once,
\* by the first call, unless that call fails).
C7_OncePerInterestedObserver ==
    /\ \A i, j \in 1..Len(prepared) : i # j => prepared[i] # prepared[j]
    /\ \A o \in Obs :
          \A a \in 1..Len(asked[o]) :
              asked[o][a].interested <=>
                  \E k \in 1..Len(prepared) :
                      prepared[k] = [layer |-> asked[o][a].layer,
                                     index |-> asked[o][a].index,
                                     obs |-> o - 1]
    /\ \A k \in 1..Len(prepared) :
          /\ prepared[k].obs + 1 \in Obs
          /\ \E a \in 1..Len(asked[prepared[k].obs + 1]) :
                AskedEntries(prepared[k].obs + 1)[a] =
                    Observation(prepared[k].layer, prepared[k].index)
    /\ \A i, j \in 1..Len(rawReads) : i # j => rawReads[i] # rawReads[j]
    /\ \A r \in 1..Len(rawReads) :
          \E k \in 1..Len(prepared) :
              rawReads[r] =
                  getByLayerTarIndex(prepared[k].layer, prepared[k].index).File
    /\ iterResult # "error" =>
          \A k \in 1..Len(prepared) :
              \E r \in 1..Len(rawReads) :
                  rawReads[r] =
                      getByLayerTarIndex(prepared[k].layer, prepared[k].index).File

\* one entry prepared for two interested observers, its tar reader read once
C7_Witness ==
    \E i, j \in 1..Len(prepared) :
        /\ i # j
        /\ prepared[i].layer = prepared[j].layer
        /\ prepared[i].index = prepared[j].index
        /\ Len(rawReads) = 1

(***************************************************************************)
(* Properties of the squash pass, checked under SpecSquash.                *)
(***************************************************************************)
Lay == 1..Len(iLayers)

\* the layers' own trees, bottom to top
LayerTrees == [k \in Lay |-> iLayers[k].Tree]

\* C8: after a successful Read layer 0's SquashedTree is layer 0's own Tree,
\* and the SquashedTree of every layer k >= 1 is the squash of exactly two
\* pushed trees, layer k-1's SquashedTree and then layer k's own Tree; no
\* layer is squashed before the layer below it.
C8_SquashOfPreviousAndOwn ==
    /\ \A k \in Lay :
          iLayers[k].hasSquash =>
              /\ \A j \in 1..(k - 1) : iLayers[j].hasSquash
              /\ k = 1 => iLayers[k].SquashedTree = iLayers[k].Tree
              /\ k > 1 =>
                    /\ pushed[k] = <<iLayers[k - 1].SquashedTree, iLayers[k].Tree>>
                    /\ iLayers[k].SquashedTree = UnionSquash(pushed[k])
    /\ rpc = "done" => \A k \in Lay : iLayers[k].hasSquash

C8_Witness ==
    /\ rpc = "done"
    /\ Len(iLayers) = 3
    /\ iLayers[2].SquashedTree # iLayers[2].Tree
    /\ iLayers[2].SquashedTree # iLayers[1].SquashedTree
    /\ iLayers[3].SquashedTree # iLayers[3].Tree
    /\ iLayers[3].SquashedTree # iLayers[2].SquashedTree

\* C9: the incremental squash equals the one-shot squash of the whole stack:
\* the SquashedTree of layer k >= 1 is the squash of the trees of layers
\* 0..k pushed together, and for three layers
\* squash(squash(L0, L1), L2) = squash(L0, L1, L2).
C9_IncrementalIsOneShot ==
    \A k \in Lay :
        (k > 1 /\ iLayers[k].hasSquash) =>
            /\ iLayers[k].SquashedTree = UnionSquash(SubSeq(LayerTrees, 1, k))
            /\ k = 3 =>
                  UnionSquash(<<UnionSquash(<<LayerTrees[1], LayerTrees[2]>>),
                                LayerTrees[3]>>)
                      = iLayers[k].SquashedTree

\* three layers with a whiteout and an opaque directory above a lowest layer
\* that still shows through
C9_Witness ==
    /\ rpc = "done"
    /\ Len(iLayers) = 3
    /\ \E p \in Paths : iLayers[2].Tree[p].kind = "whiteout"
    /\ \E d \in Paths : iLayers[3].Tree[d].kind = "opaque"
    /\ iLayers[3].SquashedTree # UnionSquash(<<LayerTrees[2], LayerTrees[3]>>)

\* a layer's tree defines a path when it holds a file or directory there
Defines(tree, p) == tree[p].kind \in {"file", "dir"}

\* C10 as claimed: if layer k defines P and no layer above k whiteouts P,
\* every squash at an index >= k holds layer k's node for P.
C10_DefinerKept ==
    \A k \in Lay : \A p \in Paths :
        (/\ Defines(iLayers[k].Tree, p)
         /\ \A j \in Lay : j > k => iLayers[j].Tree[p].kind # "whiteout")
            => \A i \in Lay :
                  (i >= k /\ iLayers[i].hasSquash)
                      => iLayers[i].SquashedTree[p] = iLayers[k].Tree[p]

\* C10 as amended: if layer k defines P and no layer j with k < j <= i
\* whiteouts P, defines P anew, or marks a directory above P opaque, the
\* squash at index i >= k holds layer k's node for P.
C10_LastDefinerKept ==
    \A k \in Lay : \A i \in Lay : \A p \in Paths :
        (/\ i >= k
         /\ iLayers[i].hasSquash
         /\ Defines(iLayers[k].Tree, p)
         /\ \A j \in (k + 1)..i :
               /\ iLayers[j].Tree[p].kind \notin {"whiteout", "file", "dir"}
               /\ \A d \in Paths :
                     IsBeneath(p, d) => iLayers[j].Tree[d].kind # "opaque")
            => iLayers[i].SquashedTree[p] = iLayers[k].Tree[p]

\* the lowest layer's node kept under two layers that change other paths
C10_Witness ==
    /\ rpc = "done"
    /\ Len(iLayers) = 3
    /\ \E p \in Paths :
          /\ Defines(iLayers[1].Tree, p)
          /\ iLayers[2].Tree[p].kind = "none"
          /\ iLayers[3].Tree[p].kind = "none"
          /\ iLayers[3].SquashedTree[p] = iLayers[1].Tree[p]
          /\ \E q \in Paths : iLayers[2].Tree[q].kind = "whiteout"
          /\ \E q \in Paths : iLayers[3].Tree[q].kind = "file"

\* the files and directories of a tree: what a tree shows once it is pushed
\* on a union (its deletion markers are not carried into the result)
Visible(tree) ==
    [p \in Paths |-> IF tree[p].kind \in {"file", "dir"} THEN tree[p] ELSE NoNode]

OpaqueIn(tree, p) == \E d \in Paths : IsBeneath(p, d) /\ tree[d].kind = "opaque"

\* C11 as claimed: an opaque marker on D in layer k leaves no path beneath D
\* in the squash at index k; every other path that layer k does not touch
\* keeps the node of the squash at index k-1; a whiteout of a path removes
\* that path and only that path.
C11_OpaqueRemovesAllBeneath ==
    \A k \in Lay :
        iLayers[k].hasSquash =>
            \A p \in Paths :
                /\ OpaqueIn(iLayers[k].Tree, p) =>
                      iLayers[k].SquashedTree[p] = NoNode
                /\ iLayers[k].Tree[p].kind = "whiteout" =>
                      iLayers[k].SquashedTree[p] = NoNode
                /\ (/\ k > 1
                    /\ ~OpaqueIn(iLayers[k].Tree, p)
                    /\ iLayers[k].Tree[p].kind = "none")
                      => iLayers[k].SquashedTree[p] =
                             iLayers[k - 1].SquashedTree[p]

\* C11 as amended: for k >= 1, an opaque marker on D in layer k removes from
\* the squash at index k every node beneath D that came from the layers
\* below k (a path beneath D that layer k itself defines holds layer k's
\* node); every path not beneath D that layer k does not touch keeps the
\* file or directory it had in the squash at index k-1; a whiteout of a path
\* removes that path and only that path.
C11_OpaqueRemovesLowerBeneath ==
    \A k \in Lay :
        (k > 1 /\ iLayers[k].hasSquash) =>
            \A p \in Paths :
                LET own == iLayers[k].Tree[p]
                    below == Visible(iLayers[k - 1].SquashedTree)[p]
                    now == iLayers[k].SquashedTree[p]
                IN  /\ OpaqueIn(iLayers[k].Tree, p) =>
                          now = Visible(iLayers[k].Tree)[p]
                    /\ own.kind = "whiteout" => now = NoNode
                    /\ (~OpaqueIn(iLayers[k].Tree, p) /\ own.kind \in {"none", "opaque"})
                          => now = below

\* an opaque directory hides a lower layer's file beneath it and keeps a
\* path outside it; a whiteout of a directory leaves the file beneath it
C11_Witness ==
    /\ rpc = "done"
    /\ Len(iLayers) = 3
    /\ iLayers[2].Tree[<<"d">>].kind = "opaque"
    /\ iLayers[1].Tree[<<"d", "x">>].kind = "file"
    /\ iLayers[1].Tree[<<"e">>].kind = "file"
    /\ iLayers[2].SquashedTree[<<"d", "x">>] = NoNode
    /\ iLayers[2].SquashedTree[<<"e">>] = iLayers[1].Tree[<<"e">>]
    /\ iLayers[3].Tree[<<"e">>].kind = "none"
    /\ iLayers[3].Tree[<<"d">>].kind = "whiteout"
    /\ iLayers[3].SquashedTree[<<"d">>] = NoNode
    /\ iLayers[3].SquashedTree[<<"e">>] = iLayers[1].Tree[<<"e">>]

(***************************************************************************)
(* Properties of the queries, checked under SpecQuery.                     *)
(***************************************************************************)
\* the squash of the last layer of the image, an empty tree without layers
TopSquash ==
    IF iLayers = << >> THEN EmptyTree ELSE iLayers[Len(iLayers)].SquashedTree

\* C12: Image.SquashedTree returns the SquashedTree of the last layer of
\* Layers, and an empty tree when the image has no layer; the path queries
\* FileContentsFromSquash and MultipleFileContentsFromSquash are evaluated
\* against exactly that tree: they fail when a path is not in it and hand
\* out the content of the references it holds at the paths otherwise.
C12_SquashedTreeIsTopSquash ==
    /\ query.op = "SquashedTree" => query.tree = TopSquash
    /\ query.op \in {"FileContentsFromSquash", "MultipleFileContentsFromSquash"} =>
          /\ query.tree = TopSquash
          /\ IF \E p \in query.arg : TopSquash[p].kind = "none"
             THEN query.result.status = "error"
             ELSE /\ query.result.status = "ok"
                  /\ query.result.refs =
                         {[layer |-> TopSquash[p].layer, path |-> p] : p \in query.arg}

\* a path query answered from the squash of the second of two layers, for
\* a path the squash of the first layer does not hold
C12_Witness ==
    /\ query.op = "FileContentsFromSquash"
    /\ Len(iLayers) = 2
    /\ query.result.status = "ok"
    /\ \E p \in query.arg :
          /\ iLayers[1].SquashedTree[p].kind = "none"
          /\ iLayers[2].SquashedTree[p].kind = "file"

(***************************************************************************)
(* Properties of Read, checked under SpecRead.                             *)
(***************************************************************************)
\* the steps of a Read that runs to its end, in the order the claim gives
PhasesInOrder ==
    <<Event("metadata", 0)>>
    \o [k \in 1..Len(overrideMetadata) |-> Event("override", k - 1)]
    \o [k \in 1..image.nLayers |-> Event("parse", k - 1)]
    \o <<Event("publish", image.nLayers)>>
    \o [k \in 1..image.nLayers |-> Event("squash", k - 1)]

IsPrefix(s, t) == Len(s) <= Len(t) /\ s = SubSeq(t, 1, Len(s))

\* C13: Read performs its phases in a fixed order: the metadata is parsed,
\* then the overrides are applied in the order given, then the layers are
\* parsed in increasing index order, and only after every layer has been
\* parsed the squash pass runs, in increasing index order; what Read has
\* done so far is at every moment a prefix of that order, and no layer is
\* squashed before the last layer has been parsed.
C13_PhasesInFixedOrder ==
    /\ IsPrefix(trace, PhasesInOrder)
    /\ \A k \in 1..Len(trace) :
          trace[k].op = "squash" =>
              \A l \in 0..(image.nLayers - 1) :
                  \E j \in 1..(k - 1) : trace[j] = Event("parse", l)
    /\ rpc = "done" => trace = PhasesInOrder

\* a Read with an override and two layers that ran to its end
C13_Witness ==
    /\ rpc = "done"
    /\ Len(overrideMetadata) >= 1
    /\ image.nLayers = 2
    /\ trace[Len(trace)] = Event("squash", 1)

TraceOps == {trace[k].op : k \in 1..Len(trace)}

\* C14: when a metadata override fails, or the parse of layer k fails, Read
\* returns the error at that point: no later override is applied, no layer
\* is parsed after the failure (none at all after an override failure), the
\* squash pass never runs, and Image.Layers is left as it was before the
\* call, so the layers parsed before the failure are not published.
C14_FailureStopsRead ==
    /\ readErr = "override" =>
          /\ rpc = "failed"
          /\ overrideMetadata[ovIdx + 1] = "fail"
          /\ Metadata.applied = [k \in 1..ovIdx |-> k - 1]
          /\ layers = << >>
          /\ TraceOps \subseteq {"metadata", "override"}
          /\ iLayers = << >>
    /\ readErr = "parse" =>
          /\ rpc = "failed"
          /\ Len(layers) < image.nLayers
          /\ TraceOps \subseteq {"metadata", "override", "parse"}
          /\ trace[Len(trace)] = IF layers = << >>
                                 THEN IF overrideMetadata = << >>
                                      THEN Event("metadata", 0)
                                      ELSE Event("override", Len(overrideMetadata) - 1)
                                 ELSE Event("parse", Len(layers) - 1)
          /\ iLayers = << >>
    /\ readErr \in {"override", "parse"} =>
          /\ \A k \in 1..Len(layers) : ~layers[k].hasSquash
          /\ pushed = << >>
          /\ ~readProg.completed

\* the parse of the second layer failed: the first layer was parsed and is
\* not in Image.Layers
C14_Witness ==
    /\ rpc = "failed"
    /\ readErr = "parse"
    /\ Len(layers) = 1
    /\ Metadata.applied # << >>
    /\ iLayers = << >>

\* C15: once Read has completed, the queries (SquashedTree, the four
\* content queries, the two link resolutions) and every step of
\* IterateContent leave the image model as it is: the list of Layers, each
\* layer's Tree and SquashedTree, the Metadata and the entries of the
\* catalog are the same after the step as before it; only the content cache
\* of the catalog may change.
C15_QueriesLeaveModelUnchanged ==
    [][/\ iLayers' = iLayers
       /\ layers' = layers
       /\ Metadata' = Metadata
       /\ catalog' = catalog
       /\ image' = image]_vars

\* a content query cached one file, IterateContent then read and cached
\* another, and the layers are still those Read computed
C15_Witness ==
    /\ ipc = "returned"
    /\ iterResult = "ok"
    /\ Len(rawReads) > 0
    /\ Cardinality(contentCache) > Len(rawReads)
    /\ Len(iLayers) = 2
    /\ \A k \in 1..2 : iLayers[k].hasSquash

\* how many steps of one kind Read has taken
Steps(op) == Cardinality({k \in 1..Len(trace) : trace[k].op = op})

\* C16 as claimed: the read-progress counter covers one read step and one
\* squash step for each layer: Total is twice the number of layers, N never
\* exceeds Total, N has advanced once for every layer parsed and once for
\* every layer squashed, so N equals Total when the squash loop has
\* processed the last layer.
C16_ProgressCoversEveryStep ==
    rpc \in {"layers", "squash", "done"} =>
        /\ readProg.Total = 2 * image.nLayers
        /\ readProg.N <= readProg.Total
        /\ readProg.N = Steps("parse") + Steps("squash")
        /\ (rpc \in {"squash", "done"} /\ sqIdx = Len(iLayers))
              => readProg.N = readProg.Total

(***************************************************************************)
(* Liveness of IterateContent, checked under SpecIterFair.                 *)
(***************************************************************************)
\* IterateContent has been called, has not returned and can take no step
ProducerBlocked ==
    /\ ipc \notin {"idle", "returned"}
    /\ ~ENABLED Producer

\* IterateContent has returned and every observer has left its loop
PipelineOver ==
    /\ ipc = "returned"
    /\ \A o \in DOMAIN obsState : obsState[o] = "exited" /\ closeCount[o] > 0

\* C17: when every layer archive is finite and every observer keeps
\* receiving until its channel is closed, IterateContent eventually returns
\* and every observer eventually sees its channel closed; and the producer
\* is blocked only in a channel send to an observer that answered it is
\* interested in the current entry and has not yet received it.
C17_PipelineTerminates ==
    /\ [](ProducerBlocked =>
            /\ ipc = "send"
            /\ pending[oIdx + 1] = {Observation(lIdx, eIdx)}
            /\ asked[oIdx + 1][Len(asked[oIdx + 1])] =
                   [layer |-> lIdx, index |-> eIdx, interested |-> TRUE]
            /\ \A k \in 1..Len(received[oIdx + 1]) :
                  <<received[oIdx + 1][k].layer, received[oIdx + 1][k].index>>
                      # <<lIdx, eIdx>>)
    /\ (ipc # "idle") ~> PipelineOver

\* a complete run with two observers that received content and left
C17_Witness ==
    /\ ipc = "returned"
    /\ iterResult = "ok"
    /\ Len(obsState) = 2
    /\ \A o \in 1..2 : obsState[o] = "exited" /\ received[o] # << >>

(***************************************************************************)
(* The end of the stream, checked under SpecIter.                          *)
(***************************************************************************)
\* the channel sends made so far
Sends == SelectSeq(sendLog, LAMBDA e : e.ev = "send")

\* C18: on every return of IterateContent taken after the observers were
\* started, a fatal error included, every observer channel is closed
\* exactly once, and no send is attempted on a closed channel: while the
\* call runs no channel is closed, at the close no send is under way, and
\* once a channel is closed no send is made and nothing is closed again; an
\* observer leaves its loop on the same signal after an aborted run as
\* after a complete one.
C18_ClosedExactlyOnce ==
    /\ [](/\ \A o \in DOMAIN closeCount :
                /\ closeCount[o] = IF ipc = "returned" THEN 1 ELSE 0
                /\ closeCount[o] > 0 => pending[o] = {}
                /\ \A k \in 1..Len(received[o]) : ~received[o][k].closed
                /\ obsState[o] = "exited" <=>
                      (closeCount[o] = 1 /\ ~ENABLED ObserverStep(o))
          /\ (ipc = "returned" /\ observers # << >>) =>
                /\ DOMAIN closeCount = 1..Len(observers)
                /\ iterResult \in {"ok", "error"})
    /\ [][(\E o \in DOMAIN closeCount : closeCount[o] > 0) =>
              /\ Sends' = Sends
              /\ closeCount' = closeCount]_vars

\* an aborted run: the observer has received an entry, the run failed, and
\* the channel of each of the two observers is closed once
C18_Witness ==
    /\ ipc = "returned"
    /\ iterResult = "error"
    /\ Len(observers) = 2
    /\ \A o \in 1..2 : closeCount[o] = 1 /\ obsState[o] = "exited"
    /\ received[1] # << >>

\* C19 as claimed: whenever Read has returned, with or without an error,
\* every layer in Image.Layers has a computed SquashedTree, also when the
\* squash of some layer failed.
C19_PublishedLayersAreSquashed ==
    rpc \in {"done", "failed"} =>
        \A k \in 1..Len(iLayers) : iLayers[k].hasSquash

\* C20 as claimed: on every image Read has completed, with any number of
\* layers, zero included, ResolveLinkByImageSquash resolves against the tree
\* SquashedTree returns and so gives what ResolveLinkByLayerSquash gives at
\* the top layer index; both pass the follow-basename-links policy together
\* with the caller's options; and the call yields a reference or an error
\* value, it does not fault.
C20_ImageSquashResolvesInSquashedTree ==
    /\ query.op \in {"ResolveLinkByLayerSquash", "ResolveLinkByImageSquash"} =>
          /\ Head(query.options) = "FollowBasenameLinks"
          /\ Tail(query.options) \in CallerOptions
    /\ query.op = "ResolveLinkByImageSquash" =>
          /\ query.result.status \in {"ok", "error"}
          /\ query.tree = TopSquash
          /\ query.result.refs =
                 {[layer |-> TopSquash[p].layer, path |-> p] :
                     p \in {q \in {query.arg[1].path} : TopSquash[q].kind # "none"}}

=============================================================================
